---- MODULE Spec2Model ----
(***************************************************************************)
(* A model of the computation graph of pkg/ml/ag (graph.go): the arena of  *)
(* node records, the id counter, the depth ("level") bookkeeping done by   *)
(* NewOperator, the mutex that serialises the constructors, and the        *)
(* backward pass that consumes the depth grouping.                         *)
(***************************************************************************)
EXTENDS Integers, Sequences, FiniteSets, TLC

\* ------------------------------------------------------------------ bounds

\* number of goroutines sharing the graph
NumProcs == 2
\* number of node objects ever allocated in one behaviour
MaxNodes == 4
\* longest operand list handed to NewOperator
MaxOperands == 2
\* number of Reset calls in one behaviour
MaxResets == 1
\* node objects allocated in a behaviour that goes on to run backward passes
MaxGradNodes == 3
\* values of the leaves are 1..MaxValue, seed gradients 1..MaxSeed
MaxValue == 3
MaxSeed == 2
\* backward passes in one behaviour
MaxPasses == 2
\* leaves the inputs of the attention are drawn from
AttLeaves == 3
\* largest vector size and number of chunks handed to SplitVec
MaxSize == 12
\* parameters of a model that is serialized, and bytes one parameter takes
MaxParams == 3
MaxBytes == 2
\* constructor calls in a behaviour with a goroutine inside groupNodesByDepth
MaxGroupNodes == 3
\* constructor calls in a behaviour checked for progress
MaxFairNodes == 3
\* leaves the arguments of Affine are drawn from, and its longest argument list
AffLeaves == 2
MaxArgs == 5

Procs == 1..NumProcs

VARIABLES
  g,      \* the Graph struct: mu, maxId, maxDepth, nodes
  heap,   \* the node objects (Variable, Wrapper, Operator); a Node is an index here
  pc,     \* per goroutine: where it is inside a constructor
  call,   \* per goroutine: the arguments and locals of the call it is executing
  hist,   \* history: the constructions that succeeded since the last Reset (seq),
          \* the number of Resets (resets) and of calls that panicked (failed)
  bw,     \* the backward passes run so far (passes: output and seed of each)
          \* and the events of the last one (log)
  att,    \* a call of ScaledDotProductAttentionConcurrent: its phase, its qs,
          \* each goroutine's locals, and the context and probs slices
  res,    \* the outcome of the last call of a function of package nn: the
          \* function, its arguments, how it ended and what it returned
  grp     \* a goroutine inside groupNodesByDepth: where it is, the out it
          \* made, the length of the slice it ranges over and its position

vars == <<g, heap, pc, call, hist, bw, att, res, grp>>

\* ------------------------------------------------------------ graph.go

\* The value of g.mu when no goroutine owns it.
Free == 0

\* NewGraph (graph.go 34-40): maxId 0, maxDepth 0, no nodes, the mutex unlocked.
NewGraph == [mu |-> Free, maxId |-> 0, maxDepth |-> 0, nodes |-> <<>>]

NoCall == [op |-> "none", value |-> 0, requiresGrad |-> FALSE,
           function |-> "none", operands |-> <<>>]

\* Node.Id() and Node.RequiresGrad() of the node object behind reference n.
Id(H, n) == H[n].id
RequiresGrad(H, n) == H[n].requiresGrad

\* g.nodes[i] with Go's zero-based index i.
NodeAt(G, i) == G.nodes[i + 1]
InRange(G, i) == i >= 0 /\ i < Len(G.nodes)

\* A newId that reads the counter without adding to it.
newId_NoAdd(G) == [id |-> G.maxId, g |-> G]

\* newId (graph.go 155-157): atomic.AddInt64(&g.maxId, 1) - 1.
newId(G) == [id |-> (G.maxId + 1) - 1, g |-> [G EXCEPT !.maxId = @ + 1]]

\* maxDepth (graph.go 176-181).
maxDepth(a, b) == IF a > b THEN a ELSE b

\* A requireGrad that asks every operand to require gradients.
requireGrad_All(H, ns) == \A i \in 1..Len(ns) : RequiresGrad(H, ns[i])

\* requireGrad (graph.go 183-190): true iff some operand requires gradients.
requireGrad(H, ns) == \E i \in 1..Len(ns) : RequiresGrad(H, ns[i])

\* sumDescendants (graph.go 159-165): indexes g.nodes with every operand's id;
\* the result is "panic" when one of them is out of range.
RECURSIVE sumDescendantsFrom(_, _, _, _)
sumDescendantsFrom(G, H, ns, i) ==
  IF i > Len(ns) THEN [panic |-> FALSE, sum |-> 0]
  ELSE IF ~InRange(G, Id(H, ns[i])) THEN [panic |-> TRUE, sum |-> 0]
  ELSE LET rest == sumDescendantsFrom(G, H, ns, i + 1)
       IN [panic |-> rest.panic,
           sum |-> Len(NodeAt(G, Id(H, ns[i])).descendants) + rest.sum]

sumDescendants(G, H, ns) == sumDescendantsFrom(G, H, ns, 1)

\* One iteration of the inner loop of NewOperator (graph.go 96-102) on
\* descendantId d. L holds the loop's state: the graph, the mark slice (as the
\* set of marked ids, over indices 0..marklen-1) and the descendants slice.
visitDescendant_NoMark(L, d) ==
  IF ~(d >= 0 /\ d < L.marklen) THEN [L EXCEPT !.panic = TRUE]
  ELSE [L EXCEPT
          !.mark = @ \cup {d},
          !.g.nodes[d + 1].depth = @ + 1,
          !.g.maxDepth = maxDepth(L.g.nodes[d + 1].depth + 1, @),
          !.descendants = IF d \in L.mark THEN @ ELSE Append(@, d)]

\* A visit that counts a marked id once but appends it again.
visitDescendant_AppendAgain(L, d) ==
  IF ~(d >= 0 /\ d < L.marklen) THEN [L EXCEPT !.panic = TRUE]
  ELSE IF d \in L.mark THEN [L EXCEPT !.descendants = Append(@, d)]
  ELSE [L EXCEPT
          !.mark = @ \cup {d},
          !.g.nodes[d + 1].depth = @ + 1,
          !.g.maxDepth = maxDepth(L.g.nodes[d + 1].depth + 1, @),
          !.descendants = Append(@, d)]

visitDescendant(L, d) ==
  IF ~(d >= 0 /\ d < L.marklen) THEN [L EXCEPT !.panic = TRUE]
  ELSE IF d \in L.mark THEN L
  ELSE [L EXCEPT
          !.mark = @ \cup {d},
          !.g.nodes[d + 1].depth = @ + 1,
          !.g.maxDepth = maxDepth(L.g.nodes[d + 1].depth + 1, @),
          !.descendants = Append(@, d)]

\* An inner loop that visits the operand alone (the last id of its list), not
\* what the operand is built upon.
innerLoop_OperandOnly(L, ds, j) ==
  IF L.panic \/ Len(ds) = 0 THEN L ELSE visitDescendant(L, ds[Len(ds)])

RECURSIVE innerLoop(_, _, _)
innerLoop(L, ds, j) ==
  IF L.panic \/ j > Len(ds) THEN L
  ELSE innerLoop(visitDescendant(L, ds[j]), ds, j + 1)

\* The outer loop of NewOperator (graph.go 95-104) from operand i on.
RECURSIVE outerLoop(_, _, _, _)
outerLoop(L, H, ns, i) ==
  IF L.panic \/ i > Len(ns) THEN L
  ELSE IF ~InRange(L.g, Id(H, ns[i])) THEN [L EXCEPT !.panic = TRUE]
  ELSE outerLoop(innerLoop(L, NodeAt(L.g, Id(H, ns[i])).descendants, 1), H, ns, i + 1)

\* A node object as the constructors build it: grad nil, hasGrad false.
Object(kind, id, value, rg, f, ns) ==
  [kind |-> kind, id |-> id, value |-> value, grad |-> 0, hasGrad |-> FALSE,
   requiresGrad |-> rg, function |-> f, operands |-> ns]

\* The body of NewVariable, NewWrap and NewWrapNoGrad between Lock and the
\* deferred Unlock (graph.go 54-69, 119-132, 138-151): a fresh id, the node
\* object, and the append of a record of depth 0 with descendants {id}.
registerLeaf(G, H, kind, value, rg) ==
  LET n == newId(G)
      ref == Len(H) + 1
  IN [panic |-> FALSE,
      ret |-> ref,
      heap |-> Append(H, Object(kind, n.id, value, rg, "none", <<>>)),
      g |-> [n.g EXCEPT !.nodes = Append(@, [node |-> ref, depth |-> 0,
                                               descendants |-> <<n.id>>])]]

\* The operands of ns whose id is an index of the arena.
RECURSIVE validOperands(_, _, _)
validOperands(G, H, ns) ==
  IF ns = <<>> THEN <<>>
  ELSE IF InRange(G, Id(H, Head(ns))) THEN <<Head(ns)>> \o validOperands(G, H, Tail(ns))
  ELSE validOperands(G, H, Tail(ns))

\* A NewOperator that checks the operands' ids and skips those out of range.
registerOperator_SkipInvalid(G, H, f, value, ns) ==
  LET n == newId(G)
      ref == Len(H) + 1
      vs == validOperands(G, H, ns)
      L0 == [g |-> n.g, mark |-> {}, marklen |-> Len(n.g.nodes),
             descendants |-> <<>>, panic |-> FALSE]
      L == outerLoop(L0, H, vs, 1)
  IN [panic |-> FALSE,
      ret |-> ref,
      heap |-> Append(H, Object("Operator", n.id, value, requireGrad(H, ns), f, ns)),
      g |-> [L.g EXCEPT !.nodes =
               Append(@, [node |-> ref, depth |-> 0,
                          descendants |-> Append(L.descendants, n.id)])]]

\* The body of NewOperator between Lock and the deferred Unlock (graph.go
\* 82-113). value is the result of f.Forward(), computed before the lock.
registerOperator(G, H, f, value, ns) ==
  LET n == newId(G)
      ref == Len(H) + 1
      H1 == Append(H, Object("Operator", n.id, value, requireGrad(H, ns), f, ns))
      sum == sumDescendants(n.g, H, ns)
      L0 == [g |-> n.g, mark |-> {}, marklen |-> Len(n.g.nodes),
             descendants |-> <<>>, panic |-> FALSE]
      L == outerLoop(L0, H, ns, 1)
  IN IF sum.panic THEN [panic |-> TRUE, ret |-> 0, heap |-> H, g |-> n.g]
     ELSE IF L.panic THEN [panic |-> TRUE, ret |-> 0, heap |-> H, g |-> L.g]
     ELSE [panic |-> FALSE,
           ret |-> ref,
           heap |-> H1,
           g |-> [L.g EXCEPT !.nodes =
                    Append(@, [node |-> ref, depth |-> 0,
                               descendants |-> Append(L.descendants, n.id)])]]

\* A Reset that leaves maxDepth as it is.
resetGraph_KeepMaxDepth(G) == [G EXCEPT !.maxId = 0, !.nodes = <<>>]

\* The body of Reset between Lock and the deferred Unlock (graph.go 45-47).
resetGraph(G) == [G EXCEPT !.maxId = 0, !.maxDepth = 0, !.nodes = <<>>]

\* A grouping that counts the buckets from the deepest node down.
groupNodesByDepth_Reversed(G) ==
  [d1 \in 1..(G.maxDepth + 1) |->
     LET idx == {i \in 1..Len(G.nodes) : G.nodes[i].depth = G.maxDepth + 1 - d1}
         RECURSIVE collect(_)
         collect(i) == IF i > Len(G.nodes) THEN <<>>
                       ELSE IF i \in idx THEN <<G.nodes[i].node>> \o collect(i + 1)
                       ELSE collect(i + 1)
     IN collect(1)]

\* groupNodesByDepth (graph.go 168-174): maxDepth+1 buckets, node n appended to
\* bucket n.depth, in arena order. Bucket d is element d+1 of the result.
groupNodesByDepth(G) ==
  [d1 \in 1..(G.maxDepth + 1) |->
     LET idx == {i \in 1..Len(G.nodes) : G.nodes[i].depth = d1 - 1}
         RECURSIVE collect(_)
         collect(i) == IF i > Len(G.nodes) THEN <<>>
                       ELSE IF i \in idx THEN <<G.nodes[i].node>> \o collect(i + 1)
                       ELSE collect(i + 1)
     IN collect(1)]

\* ------------------------------------------------------------ kernels

\* Forward() of the kernel f over the operands' values.
RECURSIVE foldValues(_, _, _, _)
foldValues(H, f, ns, i) ==
  IF i > Len(ns) THEN (IF f = "Mul" THEN 1 ELSE 0)
  ELSE IF f = "Mul" THEN H[ns[i]].value * foldValues(H, f, ns, i + 1)
  ELSE H[ns[i]].value + foldValues(H, f, ns, i + 1)

Forward(H, f, ns) == foldValues(H, f, ns, 1)

\* The product of the values of the operands other than the i-th.
RECURSIVE otherProduct(_, _, _, _)
otherProduct(H, ns, i, j) ==
  IF j > Len(ns) THEN 1
  ELSE (IF j = i THEN 1 ELSE H[ns[j]].value) * otherProduct(H, ns, i, j + 1)

\* The partial gradient the kernel f sends to its i-th operand for output
\* gradient gy: gy for Add, gy times the other operands' values for Mul.
partial(H, f, ns, i, gy) ==
  IF f = "Mul" THEN gy * otherProduct(H, ns, i, 1) ELSE gy

\* ------------------------------------------------------------ backward pass

\* A PropagateGrad that writes to every node, whatever its requiresGrad.
PropagateGrad_Always(B, n, gx) ==
  [heap |-> [B.heap EXCEPT ![n].grad = @ + gx, ![n].hasGrad = TRUE],
   log |-> Append(B.log, <<"write", n>>)]

\* PropagateGrad: the gradient gx is summed into the buffer of node n; a
\* node that does not require gradients is skipped. B is the pass's state:
\* the node objects and the log of its events.
PropagateGrad(B, n, gx) ==
  IF ~RequiresGrad(B.heap, n) THEN B
  ELSE [heap |-> [B.heap EXCEPT ![n].grad = @ + gx, ![n].hasGrad = TRUE],
        log |-> Append(B.log, <<"write", n>>)]

\* The kernel's Backward(gy) of operator n: a contribution to each operand.
RECURSIVE kernelBackward(_, _, _, _)
kernelBackward(B, n, gy, i) ==
  LET ns == B.heap[n].operands
  IN IF i > Len(ns) THEN B
     ELSE kernelBackward(
            PropagateGrad(B, ns[i], partial(B.heap, B.heap[n].function, ns, i, gy)),
            n, gy, i + 1)

\* Operator.backward: the kernel is invoked on the operator's gradient when
\* the operator has one.
operatorBackward(B, n) ==
  IF ~B.heap[n].hasGrad THEN B
  ELSE kernelBackward([B EXCEPT !.log = Append(@, <<"backward", n>>)],
                      n, B.heap[n].grad, 1)

\* The nodes of one bucket, in order, from the k-th on.
RECURSIVE bucketBackward(_, _, _)
bucketBackward(B, bucket, k) ==
  IF k > Len(bucket) THEN B
  ELSE bucketBackward(
         IF B.heap[bucket[k]].kind = "Operator" THEN operatorBackward(B, bucket[k]) ELSE B,
         bucket, k + 1)

\* BackwardAll: the buckets of groupNodesByDepth in ascending depth.
RECURSIVE bucketsBackward(_, _, _)
bucketsBackward(B, groups, d1) ==
  IF d1 > Len(groups) THEN B
  ELSE bucketsBackward(bucketBackward(B, groups[d1], 1), groups, d1 + 1)

BackwardAll(G, B) == bucketsBackward(B, groupNodesByDepth(G), 1)

\* Backward(out, seed): the seed is pushed into the output, then BackwardAll.
backwardPass(G, H, out, seed) ==
  BackwardAll(G, PropagateGrad([heap |-> H, log |-> <<>>], out, seed))

\* ------------------------------------------------------------ the goroutines

\* No call of ScaledDotProductAttentionConcurrent is under way.
NoAttention ==
  [phase |-> "none", qs |-> <<>>, local |-> [p \in Procs |-> <<>>],
   context |-> [p \in Procs |-> 0], probs |-> [p \in Procs |-> 0]]

\* No function of package nn has been called.
NoResult == [fn |-> "none", args |-> <<>>, before |-> 0, panic |-> "none", ret |-> 0]

\* No goroutine is inside groupNodesByDepth.
NoGrouping == [pc |-> "idle", out |-> <<>>, len |-> 0, i |-> 0, panic |-> FALSE]

Init ==
  /\ g = NewGraph
  /\ heap = <<>>
  /\ pc = [p \in Procs |-> "idle"]
  /\ call = [p \in Procs |-> NoCall]
  /\ hist = [seq |-> <<>>, resets |-> 0, failed |-> 0]
  /\ bw = [passes |-> <<>>, log |-> <<>>]
  /\ att = NoAttention
  /\ res = NoResult
  /\ grp = NoGrouping

\* Constructor calls made so far: the node objects handed out, the calls that
\* panicked and the calls in flight.
Budget ==
  Len(heap) + hist.failed
    + Cardinality({p \in Procs : pc[p] \in {"forward", "lock", "cs"}
                                  /\ call[p].op # "Reset"})

\* The Nodes a client of the graph holds and may pass as operands: those the
\* arena holds.
Live == {g.nodes[i].node : i \in 1..Len(g.nodes)}

Enter(p, c, at) ==
  /\ pc[p] = "idle"
  /\ pc' = [pc EXCEPT ![p] = at]
  /\ call' = [call EXCEPT ![p] = c]
  /\ UNCHANGED <<g, heap, hist, bw, att, res, grp>>

\* A goroutine calls NewVariable(value, requiresGrad) and reaches g.mu.Lock().
NewVariable(p, value, rg) ==
  Enter(p, [NoCall EXCEPT !.op = "NewVariable", !.value = value, !.requiresGrad = rg], "lock")

\* NewScalar (graph.go 73-75) is NewVariable(mat.NewScalar(value), false).
NewScalar(p, value) == NewVariable(p, value, FALSE)

\* A goroutine calls NewWrap(value) and reaches g.mu.Lock().
NewWrap(p, value) ==
  Enter(p, [NoCall EXCEPT !.op = "NewWrap", !.value = value, !.requiresGrad = TRUE], "lock")

\* A goroutine calls NewWrapNoGrad(value) and reaches g.mu.Lock().
NewWrapNoGrad(p, value) ==
  Enter(p, [NoCall EXCEPT !.op = "NewWrapNoGrad", !.value = value], "lock")

\* A NewOperator that takes the lock before it evaluates f.Forward().
NewOperator_LockFirst(p, f, ns) ==
  /\ pc[p] = "idle"
  /\ g.mu = Free
  /\ g' = [g EXCEPT !.mu = p]
  /\ pc' = [pc EXCEPT ![p] = "forward"]
  /\ call' = [call EXCEPT ![p] = [NoCall EXCEPT !.op = "NewOperator",
                                                !.function = f, !.operands = ns]]
  /\ UNCHANGED <<heap, hist, bw, att, res, grp>>

\* A goroutine calls NewOperator(f, operands...) and starts f.Forward() (line 79).
NewOperator(p, f, ns) ==
  Enter(p, [NoCall EXCEPT !.op = "NewOperator", !.function = f, !.operands = ns], "forward")

\* A goroutine calls Reset() and reaches g.mu.Lock() (graph.go 42-43).
Reset(p) ==
  /\ pc[p] = "idle"
  /\ hist.resets + Cardinality({q \in Procs : call[q].op = "Reset"}) < MaxResets
  /\ pc' = [pc EXCEPT ![p] = "lock"]
  /\ call' = [call EXCEPT ![p] = [NoCall EXCEPT !.op = "Reset"]]
  /\ UNCHANGED <<g, heap, hist, bw, att, res, grp>>

\* f.Forward() returns; the goroutine reaches g.mu.Lock() (line 80).
ForwardReturn(p) ==
  /\ pc[p] = "forward"
  /\ pc' = [pc EXCEPT ![p] = "lock"]
  /\ call' = [call EXCEPT ![p].value = Forward(heap, call[p].function, call[p].operands)]
  /\ UNCHANGED <<g, heap, hist, bw, att, res, grp>>

\* g.mu.Lock() succeeds: only when no goroutine owns the mutex.
Lock(p) ==
  /\ pc[p] = "lock"
  /\ g.mu = Free
  /\ g' = [g EXCEPT !.mu = p]
  /\ pc' = [pc EXCEPT ![p] = "cs"]
  /\ UNCHANGED <<heap, call, hist, bw, att, res, grp>>

\* What the constructor called in c does to graph G and heap H under the lock.
Body(G, H, c) ==
  CASE c.op = "NewVariable" -> registerLeaf(G, H, "Variable", c.value, c.requiresGrad)
    [] c.op = "NewWrap" -> registerLeaf(G, H, "Wrapper", c.value, TRUE)
    [] c.op = "NewWrapNoGrad" -> registerLeaf(G, H, "Wrapper", c.value, FALSE)
    [] c.op = "NewOperator" -> registerOperator(G, H, c.function, c.value, c.operands)
    [] c.op = "Reset" -> [panic |-> FALSE, ret |-> 0, heap |-> H, g |-> resetGraph(G)]

\* The critical section of the constructor a goroutine is in.
Critical(p) ==
  /\ pc[p] = "cs"
  /\ LET r == Body(g, heap, call[p])
     IN /\ g' = r.g
        /\ heap' = r.heap
        /\ pc' = [pc EXCEPT ![p] = IF r.panic THEN "panic" ELSE "unlock"]
        /\ hist' = IF r.panic THEN [hist EXCEPT !.failed = @ + 1]
                   ELSE IF call[p].op = "Reset"
                     THEN [hist EXCEPT !.seq = <<>>, !.resets = @ + 1]
                   ELSE [hist EXCEPT !.seq = Append(@, [c |-> call[p], ret |-> r.ret])]
  /\ UNCHANGED <<call, bw, att, res, grp>>

\* An Unlock placed before the return, not deferred: a panic skips it.
Release_NotDeferred(p) ==
  /\ pc[p] \in {"unlock", "panic"}
  /\ g' = IF pc[p] = "panic" THEN g ELSE [g EXCEPT !.mu = Free]
  /\ pc' = [pc EXCEPT ![p] = "idle"]
  /\ call' = [call EXCEPT ![p] = NoCall]
  /\ UNCHANGED <<heap, hist, bw, res, grp>>

\* The deferred g.mu.Unlock(), on return and on a panic alike.
Release(p) ==
  /\ pc[p] \in {"unlock", "panic"}
  /\ g' = [g EXCEPT !.mu = Free]
  /\ pc' = [pc EXCEPT ![p] = "idle"]
  /\ call' = [call EXCEPT ![p] = NoCall]
  /\ UNCHANGED <<heap, hist, bw, res, grp>>

\* The constructor returns to a caller that is not inside the attention.
Unlock(p) == Release(p) /\ UNCHANGED att

\* The client runs g.Backward(out, seed) when no constructor is running.
Backward(out, seed) ==
  /\ \A p \in Procs : pc[p] = "idle"
  /\ Len(bw.passes) < MaxPasses
  /\ LET B == backwardPass(g, heap, out, seed)
     IN /\ heap' = B.heap
        /\ bw' = [passes |-> Append(bw.passes, [out |-> out, seed |-> seed]),
                  log |-> B.log]
  /\ UNCHANGED <<g, pc, call, hist, att, res, grp>>

\* The client seeds node n with gradient gx: n.PropagateGrad(gx), as the test
\* of part_001 (182-183) does on its outputs before g.BackwardAll().
PropagateGradCall(n, gx) ==
  /\ \A p \in Procs : pc[p] = "idle"
  /\ Len(bw.passes) < MaxPasses
  /\ \A k \in 1..Len(bw.passes) : bw.passes[k].out # 0
  /\ LET B == PropagateGrad([heap |-> heap, log |-> bw.log], n, gx)
     IN /\ heap' = B.heap
        /\ bw' = [passes |-> Append(bw.passes, [out |-> n, seed |-> gx]),
                  log |-> B.log]
  /\ UNCHANGED <<g, pc, call, hist, att, res, grp>>

\* The client runs g.BackwardAll() once, after its seeds (part_001 184); the
\* run is recorded as a pass without output.
BackwardAllCall ==
  /\ \A p \in Procs : pc[p] = "idle"
  /\ bw.passes # <<>>
  /\ \A k \in 1..Len(bw.passes) : bw.passes[k].out # 0
  /\ LET B == BackwardAll(g, [heap |-> heap, log |-> bw.log])
     IN /\ heap' = B.heap
        /\ bw' = [passes |-> Append(bw.passes, [out |-> 0, seed |-> 0]),
                  log |-> B.log]
  /\ UNCHANGED <<g, pc, call, hist, att, res, grp>>

\* Linear (nn, part_001 256-258): g.Mul(w, x).
Linear(p, w, x) == NewOperator(p, "Mul", <<w, x>>)

\* g.Add(x1, x2).
Add(p, x1, x2) == NewOperator(p, "Add", <<x1, x2>>)

\* Operand lists of at most MaxOperands nodes drawn from S (repeats allowed).
OperandLists(S) == UNION {[1..k -> S] : k \in 0..MaxOperands}

Next ==
  \E p \in Procs :
    \/ Budget < MaxNodes /\ \E rg \in BOOLEAN : NewVariable(p, 1, rg)
    \/ Budget < MaxNodes /\ NewScalar(p, 1)
    \/ Budget < MaxNodes /\ NewWrap(p, 1)
    \/ Budget < MaxNodes /\ NewWrapNoGrad(p, 1)
    \/ Budget < MaxNodes /\ \E ns \in OperandLists(Live) : NewOperator(p, "Add", ns)
    \/ ForwardReturn(p)
    \/ Lock(p)
    \/ Critical(p)
    \/ Unlock(p)

Spec == Init /\ [][Next]_vars

\* One goroutine builds, resets and builds again; its operands are nodes of
\* the arena as it is at the call.
NextReset ==
  \/ Budget < MaxNodes /\ \E rg \in BOOLEAN : NewVariable(1, 1, rg)
  \/ Budget < MaxNodes /\ NewScalar(1, 1)
  \/ Budget < MaxNodes /\ NewWrap(1, 1)
  \/ Budget < MaxNodes /\ NewWrapNoGrad(1, 1)
  \/ Budget < MaxNodes /\ \E ns \in OperandLists(Live) : NewOperator(1, "Add", ns)
  \/ Reset(1)
  \/ ForwardReturn(1)
  \/ Lock(1)
  \/ Critical(1)
  \/ Unlock(1)

SpecReset == Init /\ [][NextReset]_vars

\* Concurrent goroutines that also call Reset and pass as operands any node
\* they were ever handed, those of before a Reset included.
Held == 1..Len(heap)

NextAny ==
  \E p \in Procs :
    \/ Budget < MaxNodes /\ \E rg \in BOOLEAN : NewVariable(p, 1, rg)
    \/ Budget < MaxNodes /\ NewScalar(p, 1)
    \/ Budget < MaxNodes /\ NewWrap(p, 1)
    \/ Budget < MaxNodes /\ NewWrapNoGrad(p, 1)
    \/ Budget < MaxNodes /\ \E ns \in OperandLists(Held) : NewOperator(p, "Add", ns)
    \/ Reset(p)
    \/ ForwardReturn(p)
    \/ Lock(p)
    \/ Critical(p)
    \/ Unlock(p)

SpecAny == Init /\ [][NextAny]_vars

\* The goroutines of NextAny with fewer calls and operators of one operand,
\* scheduled fairly: a goroutine that can take a step of its call takes it in
\* the end, and sync.Mutex hands the lock to a goroutine that waits for it (a
\* waiter that fails to get the mutex for long switches it to starvation
\* mode, where Unlock passes it on to the waiter at the front).
NextFair ==
  \E p \in Procs :
    \/ Budget < MaxFairNodes /\ NewVariable(p, 1, TRUE)
    \/ Budget < MaxFairNodes /\ NewScalar(p, 1)
    \/ Budget < MaxFairNodes /\ NewWrap(p, 1)
    \/ Budget < MaxFairNodes /\ NewWrapNoGrad(p, 1)
    \/ Budget < MaxFairNodes /\ \E n \in Held : NewOperator(p, "Add", <<n>>)
    \/ Reset(p)
    \/ ForwardReturn(p)
    \/ Lock(p)
    \/ Critical(p)
    \/ Unlock(p)

SpecFair ==
  /\ Init
  /\ [][NextFair]_vars
  /\ \A p \in Procs :
       /\ WF_vars(ForwardReturn(p))
       /\ SF_vars(Lock(p))
       /\ WF_vars(Critical(p))
       /\ WF_vars(Unlock(p))

Values == 1..MaxValue
Seeds == 1..MaxSeed

\* One goroutine builds a graph of Add and Mul operators over leaves with
\* values, then runs backward passes from outputs it chooses.
NextGrad ==
  \/ /\ bw.passes = <<>>
     /\ Budget < MaxGradNodes
     /\ \/ \E v \in Values, rg \in BOOLEAN : NewVariable(1, v, rg)
        \/ \E v \in Values : NewScalar(1, v)
        \/ \E v \in Values : NewWrap(1, v)
        \/ \E v \in Values : NewWrapNoGrad(1, v)
        \/ \E f \in {"Add", "Mul"}, ns \in OperandLists(Live) : NewOperator(1, f, ns)
  \/ ForwardReturn(1)
  \/ Lock(1)
  \/ Critical(1)
  \/ Unlock(1)
  \/ \E out \in Live, seed \in Seeds : Backward(out, seed)

SpecGrad == Init /\ [][NextGrad]_vars

\* One goroutine builds a graph, seeds up to MaxPasses nodes of it with
\* PropagateGrad and runs BackwardAll once.
NextSeeds ==
  \/ /\ bw.passes = <<>>
     /\ Budget < MaxGradNodes
     /\ \/ \E v \in Values, rg \in BOOLEAN : NewVariable(1, v, rg)
        \/ \E f \in {"Add", "Mul"}, ns \in OperandLists(Live) : NewOperator(1, f, ns)
  \/ ForwardReturn(1)
  \/ Lock(1)
  \/ Critical(1)
  \/ Unlock(1)
  \/ \E n \in Live, seed \in Seeds : PropagateGradCall(n, seed)
  \/ BackwardAllCall

SpecSeeds == Init /\ [][NextSeeds]_vars

\* The scenario y = w * x + b: three variables that require gradients, the
\* product by Linear, the sum, and one backward pass from y.
NextLinear ==
  \/ /\ Len(heap) < 3
     /\ \E v \in Values : NewVariable(1, v, TRUE)
  \/ /\ Len(heap) = 3
     /\ Linear(1, 1, 2)
  \/ /\ Len(heap) = 4
     /\ Add(1, 4, 3)
  \/ ForwardReturn(1)
  \/ Lock(1)
  \/ Critical(1)
  \/ Unlock(1)
  \/ /\ Len(heap) = 5
     /\ bw.passes = <<>>
     /\ \E seed \in Seeds : Backward(5, seed)

SpecLinear == Init /\ [][NextLinear]_vars

\* ------------------------------------------------------------ the grouping, step by step

\* out := make([][]Node, g.maxDepth+1) (graph.go 169): the goroutine reads
\* maxDepth, without the lock.
GroupMake ==
  /\ grp.pc = "idle"
  /\ grp' = [grp EXCEPT !.pc = "make", !.out = [d \in 1..(g.maxDepth + 1) |-> <<>>]]
  /\ UNCHANGED <<g, heap, pc, call, hist, bw, att, res>>

\* range g.nodes (graph.go 170): the slice is read once, its length fixed
\* for the loop.
GroupRange ==
  /\ grp.pc = "make"
  /\ grp' = [grp EXCEPT !.pc = "range", !.len = Len(g.nodes), !.i = 0]
  /\ UNCHANGED <<g, heap, pc, call, hist, bw, att, res>>

\* out[n.depth] = append(out[n.depth], n.node) (graph.go 171) for the next
\* record: its depth is read as it is now; an index past the buckets of out
\* is a run-time panic.
GroupVisit ==
  /\ grp.pc = "range"
  /\ grp.i < grp.len
  /\ LET n == g.nodes[grp.i + 1]
     IN grp' = IF n.depth < Len(grp.out)
               THEN [grp EXCEPT !.i = @ + 1,
                                !.out[n.depth + 1] = Append(@, n.node)]
               ELSE [grp EXCEPT !.pc = "panic", !.panic = TRUE]
  /\ UNCHANGED <<g, heap, pc, call, hist, bw, att, res>>

\* return out (graph.go 173).
GroupReturn ==
  /\ grp.pc = "range"
  /\ grp.i = grp.len
  /\ grp' = [grp EXCEPT !.pc = "done"]
  /\ UNCHANGED <<g, heap, pc, call, hist, bw, att, res>>

\* Goroutines construct nodes while one more goroutine runs
\* groupNodesByDepth once.
NextGroup ==
  \/ \E p \in Procs :
       \/ Budget < MaxGroupNodes /\ \E rg \in BOOLEAN : NewVariable(p, 1, rg)
       \/ Budget < MaxGroupNodes /\ \E ns \in OperandLists(Live) : NewOperator(p, "Add", ns)
       \/ ForwardReturn(p)
       \/ Lock(p)
       \/ Critical(p)
       \/ Unlock(p)
  \/ GroupMake
  \/ GroupRange
  \/ GroupVisit
  \/ GroupReturn

SpecGroup == Init /\ [][NextGroup]_vars

\* ------------------------------------------------------------ nn: attention

\* The key and value vectors handed to the attention: leaves of the graph.
ks == <<1, 2>>
vs == <<2, 3>>

\* The nodes the function creates before its loop (part_001 322-324 and
\* 341-343), in creation order after the leaves: keys := g.Stack(ks...),
\* g.Stack(vs...), values := g.T(...), divTerm := g.NewScalar(scaledFactor).
keys == AttLeaves + 1
stacked == AttLeaves + 2
values == AttLeaves + 3
divTerm == AttLeaves + 4

\* The operators of one pass of the loop body
OpsPerQuery == 4

\* The k-th operator of the loop body (part_001 326-328, 349-351) for query q,
\* local holding the operators the body created so far: g.Mul(keys, q),
\* attScores := g.DivScalar(.., divTerm), attProbs := g.Softmax(attScores),
\* g.Mul(values, attProbs).
attentionCall(q, local, k) ==
  CASE k = 1 -> [function |-> "Mul", operands |-> <<keys, q>>]
    [] k = 2 -> [function |-> "DivScalar", operands |-> <<local[1], divTerm>>]
    [] k = 3 -> [function |-> "Softmax", operands |-> <<local[2]>>]
    [] k = 4 -> [function |-> "Mul", operands |-> <<values, local[3]>>]

\* One pass of the loop body of ScaledDotProductAttention, from its k-th
\* operator on, on graph and heap R.
RECURSIVE attentionQuery(_, _, _, _)
attentionQuery(R, q, local, k) ==
  IF k > OpsPerQuery THEN [g |-> R.g, heap |-> R.heap, local |-> local]
  ELSE LET c == attentionCall(q, local, k)
           r == registerOperator(R.g, R.heap, c.function,
                                 Forward(R.heap, c.function, c.operands), c.operands)
       IN attentionQuery([g |-> r.g, heap |-> r.heap], q, Append(local, r.ret), k + 1)

\* The loop of ScaledDotProductAttention (part_001 325-330) from query i on.
RECURSIVE attentionLoop(_, _, _)
attentionLoop(R, qs, i) ==
  IF i > Len(qs) THEN R
  ELSE LET b == attentionQuery(R, qs[i], <<>>, 1)
       IN attentionLoop([g |-> b.g, heap |-> b.heap,
                         local |-> Append(R.local, b.local),
                         context |-> Append(R.context, b.local[4]),
                         probs |-> Append(R.probs, b.heap[b.local[3]].value)],
                        qs, i + 1)

\* ScaledDotProductAttention (part_001 319-335) once keys, values and divTerm
\* are built: the sequential loop over qs on graph G and heap H.
ScaledDotProductAttention(G, H, qs) ==
  attentionLoop([g |-> G, heap |-> H, local |-> <<>>, context |-> <<>>, probs |-> <<>>],
                qs, 1)

\* ScaledDotProductAttentionConcurrent is called with qs, on a graph that
\* holds the leaves.
AttentionCall(qs) ==
  /\ att.phase = "none"
  /\ Len(heap) = AttLeaves
  /\ \A p \in Procs : pc[p] = "idle"
  /\ att' = [NoAttention EXCEPT !.phase = "setup", !.qs = qs]
  /\ UNCHANGED <<g, heap, pc, call, hist, bw, res, grp>>

\* The calling goroutine builds keys, values and divTerm (part_001 341-343).
AttentionSetup ==
  /\ att.phase = "setup"
  /\ \/ Len(heap) = AttLeaves /\ NewOperator(1, "Stack", ks)
     \/ Len(heap) = AttLeaves + 1 /\ NewOperator(1, "Stack", vs)
     \/ Len(heap) = AttLeaves + 2 /\ NewOperator(1, "T", <<stacked>>)
     \/ Len(heap) = AttLeaves + 3 /\ NewScalar(1, 1)

\* wg.Add(len(qs)) and the go statements (part_001 344-353): one goroutine
\* per query.
AttentionSpawn ==
  /\ att.phase = "setup"
  /\ Len(heap) = AttLeaves + 4
  /\ \A p \in Procs : pc[p] = "idle"
  /\ att' = [att EXCEPT !.phase = "running"]
  /\ UNCHANGED <<g, heap, pc, call, hist, bw, res, grp>>

\* A goroutine whose q is the loop variable as it is after the loop.
workerQuery_Captured(p) == att.qs[Len(att.qs)]

\* The q of goroutine p: the argument of its go statement (part_001 346, 352).
workerQuery(p) == att.qs[p]

\* Goroutine p calls the next operator of its body.
AttentionStep(p) ==
  /\ att.phase = "running"
  /\ Len(att.local[p]) < OpsPerQuery
  /\ LET c == attentionCall(workerQuery(p), att.local[p], Len(att.local[p]) + 1)
     IN NewOperator(p, c.function, c.operands)

\* The operator returns to goroutine p, which keeps the node in a local; the
\* node is the one the goroutine registered under the lock it releases here.
AttentionReturn(p) ==
  /\ att.phase = "running"
  /\ Release(p)
  /\ att' = [att EXCEPT !.local[p] = Append(@, hist.seq[Len(hist.seq)].ret)]

\* context[i] = g.Mul(values, attProbs); probs[i] = attProbs.Value()
\* (part_001 351-352), then the deferred wg.Done().
AttentionStore(p) ==
  /\ att.phase = "running"
  /\ pc[p] = "idle"
  /\ Len(att.local[p]) = OpsPerQuery
  /\ att.context[p] = 0
  /\ att' = [att EXCEPT !.context[p] = att.local[p][4],
                        !.probs[p] = heap[att.local[p][3]].value]
  /\ UNCHANGED <<g, heap, pc, call, hist, bw, res, grp>>

\* wg.Wait() returns once every goroutine is done (part_001 355-356).
AttentionWait ==
  /\ att.phase = "running"
  /\ \A p \in Procs : att.context[p] # 0
  /\ att' = [att EXCEPT !.phase = "returned"]
  /\ UNCHANGED <<g, heap, pc, call, hist, bw, res, grp>>

\* The leaves are created, then ScaledDotProductAttentionConcurrent runs with
\* one goroutine per query.
NextAttention ==
  \/ /\ att.phase = "none"
     /\ Len(heap) < AttLeaves
     /\ \E rg \in BOOLEAN : NewVariable(1, 1, rg)
  \/ \E qs \in [Procs -> 1..AttLeaves] : AttentionCall(qs)
  \/ AttentionSetup
  \/ AttentionSpawn
  \/ att.phase # "running" /\ Unlock(1)
  \/ \E p \in Procs :
       \/ AttentionStep(p)
       \/ ForwardReturn(p)
       \/ Lock(p)
       \/ Critical(p)
       \/ AttentionReturn(p)
       \/ AttentionStore(p)
  \/ AttentionWait

SpecAttention == Init /\ [][NextAttention]_vars

\* ------------------------------------------------------------ nn: Affine

\* The nil Node.
Nil == 0

\* A call g.Mul(..) or g.Add(..) made by a function of package nn on graph and
\* heap R: NewOperator run to its end by the one goroutine there is. A nil
\* operand panics in NewOperator, which calls RequiresGrad() on it (graph.go
\* 87, 185).
callOperator(R, f, ns) ==
  IF R.panic # "none" THEN R
  ELSE IF \E i \in 1..Len(ns) : ns[i] = Nil THEN [R EXCEPT !.panic = "nil"]
  ELSE LET r == registerOperator(R.g, R.heap, f, Forward(R.heap, f, ns), ns)
       IN [g |-> r.g, heap |-> r.heap, ret |-> r.ret,
           panic |-> IF r.panic THEN "index" ELSE "none"]

\* The loop of Affine (part_001 270-276), i being Go's zero-based index and
\* R.ret the y of the code.
RECURSIVE affineLoop(_, _, _)
affineLoop(R, xs, i) ==
  IF R.panic # "none" \/ ~(i < Len(xs) - 1) THEN R
  ELSE LET w == xs[i + 1]
           x == xs[i + 2]
       IN IF x # Nil
          THEN LET m == callOperator(R, "Mul", <<w, x>>)
               IN affineLoop(callOperator(m, "Add", <<R.ret, m.ret>>), xs, i + 2)
          ELSE affineLoop(R, xs, i + 2)

\* Affine (part_001 260-278) on graph G and heap H: the panic of line 262 on
\* an even number of arguments, the reads xs[2] and xs[1] of lines 266-267
\* (an index out of range when there are fewer than three arguments), the
\* first pair, then the loop.
Affine(G, H, xs) ==
  LET R == [g |-> G, heap |-> H, ret |-> 0, panic |-> "none"]
  IN IF Len(xs) % 2 = 0 THEN [R EXCEPT !.panic = "odd"]
     ELSE IF ~(2 < Len(xs)) THEN [R EXCEPT !.panic = "index"]
     ELSE LET m == callOperator(R, "Mul", <<xs[2], xs[3]>>)
              y == callOperator(m, "Add", <<xs[1], m.ret>>)
          IN affineLoop(y, xs, 3)

\* The client calls nn.Affine(g, xs...) when no constructor is running.
AffineCall(xs) ==
  /\ \A p \in Procs : pc[p] = "idle"
  /\ res.fn = "none"
  /\ LET r == Affine(g, heap, xs)
     IN /\ g' = r.g
        /\ heap' = r.heap
        /\ res' = [fn |-> "Affine", args |-> xs, before |-> Len(heap),
                   panic |-> r.panic, ret |-> r.ret]
  /\ UNCHANGED <<pc, call, hist, bw, att, grp>>

\* Argument lists of Affine: at most MaxArgs nodes, the bias and the W taken
\* among the nodes of S, the x among them or nil.
AffineArgs(S) ==
  UNION {{xs \in [1..k -> S \cup {Nil}] :
            \A i \in 1..k : xs[i] = Nil => (i > 1 /\ i % 2 = 1)} : k \in 0..MaxArgs}

\* One goroutine creates the leaves, then calls Affine once.
NextAffine ==
  \/ /\ Len(heap) < AffLeaves
     /\ res.fn = "none"
     /\ \E v \in Values, rg \in BOOLEAN : NewVariable(1, v, rg)
  \/ Lock(1)
  \/ Critical(1)
  \/ Unlock(1)
  \/ /\ Len(heap) = AffLeaves
     /\ \E xs \in AffineArgs(Live) : AffineCall(xs)

SpecAffine == Init /\ [][NextAffine]_vars

\* ------------------------------------------------------------ nn: Serialize

\* What mat.MarshalBinaryTo or mat.UnmarshalBinaryFrom returns for one
\* parameter: the byte count and whether the error is non-nil.
Outcomes == [cnt : 0..MaxBytes, err : BOOLEAN]

\* The callback of Serialize (model.go 66-72) on a parameter whose write
\* returns o. R holds the function's named results n and err and the number
\* of parameters visited. The callback's cnt, err := ... declares an err of
\* its own, so the function's err is not assigned; its return leaves the
\* callback only.
serializeParam(R, o) == [n |-> R.n + o.cnt, err |-> R.err, visited |-> R.visited + 1]

\* The callback of Deserialize (model.go 78-84), of the same shape.
deserializeParam(R, o) == [n |-> R.n + o.cnt, err |-> R.err, visited |-> R.visited + 1]

\* model.ForEachParam(callback) (model.go 27-49): the callback on every
\* parameter, in order; cb tells which callback.
RECURSIVE forEachParam(_, _, _, _)
forEachParam(R, cb, outs, i) ==
  IF i > Len(outs) THEN R
  ELSE forEachParam(IF cb = "Serialize" THEN serializeParam(R, outs[i])
                    ELSE deserializeParam(R, outs[i]),
                    cb, outs, i + 1)

\* Serialize (model.go 65-74): n and err start as 0 and nil.
Serialize(outs) ==
  forEachParam([n |-> 0, err |-> FALSE, visited |-> 0], "Serialize", outs, 1)

\* Deserialize (model.go 77-86).
Deserialize(outs) ==
  forEachParam([n |-> 0, err |-> FALSE, visited |-> 0], "Deserialize", outs, 1)

\* The client serializes a model whose parameters' writes return outs.
SerializeCall(outs) ==
  /\ res.fn = "none"
  /\ res' = [fn |-> "Serialize", args |-> outs, before |-> 0, panic |-> "none",
             ret |-> Serialize(outs)]
  /\ UNCHANGED <<g, heap, pc, call, hist, bw, att, grp>>

\* The client deserializes a model whose parameters' reads return outs.
DeserializeCall(outs) ==
  /\ res.fn = "none"
  /\ res' = [fn |-> "Deserialize", args |-> outs, before |-> 0, panic |-> "none",
             ret |-> Deserialize(outs)]
  /\ UNCHANGED <<g, heap, pc, call, hist, bw, att, grp>>

\* The outcomes of the parameters of a model of at most MaxParams parameters.
ParamOutcomes == UNION {[1..k -> Outcomes] : k \in 0..MaxParams}

NextSerialize ==
  \/ \E outs \in ParamOutcomes : SerializeCall(outs)
  \/ \E outs \in ParamOutcomes : DeserializeCall(outs)

SpecSerialize == Init /\ [][NextSerialize]_vars

\* ------------------------------------------------------------ nn: SplitVec

\* int(math.Ceil(float64(a) / float64(b))) for integers a >= 0 and b >= 1.
CeilDiv(a, b) == IF a % b = 0 THEN a \div b ELSE (a \div b) + 1

\* The inner loop of SplitVec (part_001 397-399): the indices i + c*size for
\* i = 0 .. length-1, handed to g.AtVec in this order.
chunkIndices(c, size, length) == [k \in 1..length |-> (k - 1) + c * size]

\* The outer loop of SplitVec (part_001 390-401) from chunk c on; ys holds
\* for every chunk the indices of x its node is concatenated from.
RECURSIVE splitLoop(_, _, _, _, _)
splitLoop(ys, c, chunks, size, lastSize) ==
  IF ~(c < chunks) THEN ys
  ELSE LET length == IF c = chunks - 1 /\ lastSize > 0 THEN lastSize ELSE size
       IN splitLoop(Append(ys, chunkIndices(c, size, length)), c + 1, chunks, size, lastSize)

\* SplitVec (part_001 386-403) on a vector of n elements.
SplitVec(n, chunks) == splitLoop(<<>>, 0, chunks, CeilDiv(n, chunks), n % chunks)

\* The client splits a vector of n elements in chunks.
SplitVecCall(n, chunks) ==
  /\ res.fn = "none"
  /\ res' = [fn |-> "SplitVec", args |-> <<n, chunks>>, before |-> 0, panic |-> "none",
             ret |-> SplitVec(n, chunks)]
  /\ UNCHANGED <<g, heap, pc, call, hist, bw, att, grp>>

NextSplit == \E n \in 1..MaxSize, chunks \in 1..MaxSize : SplitVecCall(n, chunks)

SpecSplit == Init /\ [][NextSplit]_vars

\* ------------------------------------------------------------ properties

\* The operand relation, read from the node objects: what n is built upon.
RECURSIVE Closure(_, _)
Closure(H, n) ==
  {n} \cup UNION {Closure(H, H[n].operands[i]) : i \in 1..Len(H[n].operands)}

TransOperands(H, n) ==
  UNION {Closure(H, H[n].operands[i]) : i \in 1..Len(H[n].operands)}

Range(s) == {s[i] : i \in 1..Len(s)}

\* The operators the arena holds.
Registered == {n \in Live : heap[n].kind = "Operator"}

\* C1: with no Reset and no failing call, the ids handed out are pairwise
\* distinct, are exactly 0..N-1 for N created nodes, and every node sits at
\* the arena index equal to its id.
C1_IdsUniqueDense ==
  /\ \A i \in 1..Len(g.nodes) : Id(heap, g.nodes[i].node) = i - 1
  /\ \A m, n \in 1..Len(heap) : m # n => Id(heap, m) # Id(heap, n)
  /\ {Id(heap, n) : n \in 1..Len(heap)} = 0..(Len(heap) - 1)
  /\ Len(g.nodes) = Len(heap)

\* Two goroutines raced: one is past its critical section while the other
\* waits for the lock, and three nodes are registered.
C1_Witness ==
  \E p, q \in Procs :
    /\ pc[p] = "unlock"
    /\ pc[q] = "lock"
    /\ Len(g.nodes) >= 3

\* C2: the depth of every node record is the number of distinct registered
\* operators that have the node as a direct or transitive operand.
C2_DepthCountsConsumers ==
  \A i \in 1..Len(g.nodes) :
    g.nodes[i].depth =
      Cardinality({o \in Registered : g.nodes[i].node \in TransOperands(heap, o)})

\* An operator that reaches a node both directly and through another operand
\* is registered, after a goroutine raced it.
C2_Witness ==
  \E o \in Registered :
    /\ Len(heap[o].operands) = 2
    /\ heap[o].operands[1] \in TransOperands(heap, heap[o].operands[2])
    /\ \E p \in Procs : pc[p] = "lock"

\* The bucket (index into groupNodesByDepth's result, zero-based) holding node n.
BucketsOf(n) ==
  {d \in 0..g.maxDepth : \E k \in 1..Len(groupNodesByDepth(g)[d + 1]) :
                            groupNodesByDepth(g)[d + 1][k] = n}

\* C3: an operator's depth is strictly below the depth of each of its
\* operands; so no bucket of groupNodesByDepth holds a node together with
\* one of its direct or transitive operands, and every consumer of a node is
\* in a lower bucket than the node.
C3_ConsumersInLowerBuckets ==
  /\ \A o \in Registered : \A i \in 1..Len(heap[o].operands) :
       NodeAt(g, Id(heap, o)).depth < NodeAt(g, Id(heap, heap[o].operands[i])).depth
  /\ \A m, n \in Live :
       m \in TransOperands(heap, n) =>
         \A dm \in BucketsOf(m), dn \in BucketsOf(n) : dn < dm
  /\ \A n \in Live : Cardinality(BucketsOf(n)) = 1

\* A chain of two operators over a leaf is registered: three buckets are in use.
C3_Witness ==
  /\ g.maxDepth >= 2
  /\ \E o \in Registered : \E i \in 1..Len(heap[o].operands) :
       heap[heap[o].operands[i]].kind = "Operator"

\* The arena is exactly a, b, c = f(a, b), d = g(a, c) with a and b variables.
Diamond(a, b, c, d) ==
  /\ Len(g.nodes) = 4
  /\ {a, b, c, d} = Live
  /\ heap[a].kind = "Variable" /\ heap[b].kind = "Variable"
  /\ heap[c].kind = "Operator" /\ heap[c].operands = <<a, b>>
  /\ heap[d].kind = "Operator" /\ heap[d].operands = <<a, c>>

DepthOf(n) == NodeAt(g, Id(heap, n)).depth

\* C7: in the diamond c = f(a, b), d = g(a, c) on a fresh graph, the level
\* of a is 2, the level of c is 1 and the level of d is 0.
C7_DiamondLevels ==
  \A a, b, c, d \in Live :
    Diamond(a, b, c, d) => DepthOf(a) = 2 /\ DepthOf(c) = 1 /\ DepthOf(d) = 0

\* The diamond has been built.
C7_Witness == \E a, b, c, d \in Live : Diamond(a, b, c, d)

\* C10: no goroutine is inside Forward() while it owns g.mu, the mutex is
\* owned exactly by the goroutine in its critical section, a goroutine in
\* Forward() never keeps a waiting goroutine from the lock, and the arena and
\* the depths change only in a step of the goroutine that owns the mutex.
C10_ForwardOutsideLock ==
  /\ [](\A p \in Procs :
          /\ pc[p] = "forward" => g.mu # p
          /\ pc[p] \in {"cs", "unlock", "panic"} <=> g.mu = p
          /\ (pc[p] = "lock" /\ \A q \in Procs : pc[q] \in {"idle", "forward", "lock"})
               => ENABLED Lock(p))
  /\ [][(g.nodes' # g.nodes \/ g.maxDepth' # g.maxDepth)
          => (g.mu \in Procs /\ pc[g.mu] = "cs" /\ g.mu' = g.mu)]_vars

\* One goroutine registers its node while another is inside Forward().
C10_Witness ==
  \E p, q \in Procs :
    /\ pc[p] = "forward"
    /\ pc[q] = "unlock"
    /\ call[q].op = "NewOperator"

\* What a client can observe of a graph: the counters and, per arena index,
\* the id and kind of the node, its depth and its descendants list.
View(G, H) ==
  [maxId |-> G.maxId,
   maxDepth |-> G.maxDepth,
   nodes |-> [i \in 1..Len(G.nodes) |->
                [id |-> Id(H, G.nodes[i].node),
                 kind |-> H[G.nodes[i].node].kind,
                 depth |-> G.nodes[i].depth,
                 descendants |-> G.nodes[i].descendants]]]

\* The construction sequence S replayed, call by call, on the graph NewGraph()
\* returns, with its own node objects: the k-th call of S gets as operands the
\* nodes the replay created for the calls that created its operands.
RECURSIVE replayFrom(_, _, _)
replayFrom(R, S, k) ==
  IF k > Len(S) THEN R
  ELSE LET e == S[k]
           ns == [j \in 1..Len(e.c.operands) |-> R.map[e.c.operands[j]]]
           c == [e.c EXCEPT !.operands = ns,
                            !.value = IF e.c.op = "NewOperator"
                                      THEN Forward(R.heap, e.c.function, ns) ELSE @]
           r == Body(R.g, R.heap, c)
       IN replayFrom([g |-> r.g, heap |-> r.heap, map |-> (e.ret :> r.ret) @@ R.map],
                     S, k + 1)

Replay(S) == replayFrom([g |-> NewGraph, heap |-> <<>>, map |-> [x \in {} |-> 0]], S, 1)

\* C6: after any history of successful constructions and a Reset, a
\* construction sequence gives every node the id, depth and descendants list,
\* and the graph the maxDepth (and id counter), that the same sequence gives
\* on a graph freshly returned by NewGraph().
C6_ResetLikeFresh ==
  hist.resets >= 1 =>
    LET R == Replay(hist.seq) IN View(g, heap) = View(R.g, R.heap)

\* A graph that held an operator was reset, and an operator was built again.
C6_Witness ==
  /\ hist.resets >= 1
  /\ \E n \in Held \ Live : heap[n].kind = "Operator" /\ heap[n].operands # <<>>
  /\ \E n \in Live : heap[n].kind = "Operator" /\ heap[n].operands # <<>>
  /\ pc[1] = "idle"

\* C9: a NewOperator whose critical section runs with an operand whose id is
\* not an index of the arena panics there: the goroutine leaves the critical
\* section panicking, no node is handed out and none is appended.
C9_InvalidOperandPanics ==
  [][\A p \in Procs :
       (/\ pc[p] = "cs"
        /\ pc'[p] # "cs"
        /\ call[p].op = "NewOperator"
        /\ \E i \in 1..Len(call[p].operands) : ~InRange(g, Id(heap, call[p].operands[i])))
       => (/\ pc'[p] = "panic"
           /\ heap' = heap
           /\ g'.nodes = g.nodes
           /\ hist'.seq = hist.seq
           /\ hist'.failed = hist.failed + 1)]_vars

\* A NewOperator call has panicked on an operand that is not in the arena.
C9_Witness ==
  \E p \in Procs :
    /\ pc[p] = "panic"
    /\ \E i \in 1..Len(call[p].operands) : ~InRange(g, Id(heap, call[p].operands[i]))

\* The node objects with every gradient buffer cleared.
Cleared(H) == [n \in 1..Len(H) |-> [H[n] EXCEPT !.grad = 0, !.hasGrad = FALSE]]

Leaves == {n \in Live : heap[n].kind # "Operator"}

\* C4: two backward passes from one output with seeds g1 and g2, with no
\* clearing in between, leave every leaf with the gradient of one pass seeded
\* with g1 + g2; stated for the case the claim requires by name, the leaves
\* the output reaches through an intermediate operator (not as its own operand).
C4_Additive ==
  (/\ Len(bw.passes) = 2
   /\ bw.passes[1].out = bw.passes[2].out)
  => LET out == bw.passes[1].out
         one == backwardPass(g, Cleared(heap), out,
                             bw.passes[1].seed + bw.passes[2].seed).heap
     IN \A n \in Leaves :
          (n \in TransOperands(heap, out) /\ n \notin Range(heap[out].operands))
            => heap[n].grad = one[n].grad

\* The events of the last backward pass that concern node n.
Events(n) == {k \in 1..Len(bw.log) : bw.log[k][2] = n}

\* C5: a node whose requiresGrad is false never gets a gradient written and
\* its kernel Backward is never invoked, also when it is an operand of an
\* operator that requires gradients.
C5_NoGradientWithoutRequiresGrad ==
  \A n \in Held :
    ~heap[n].requiresGrad =>
      /\ heap[n].grad = 0
      /\ ~heap[n].hasGrad
      /\ Events(n) = {}

\* A backward pass ran the kernel of an operator that requires gradients and
\* has an operand that does not: the other operand got its contribution.
C5_Witness ==
  \E o \in Registered :
    /\ heap[o].requiresGrad
    /\ \E k \in Events(o) : bw.log[k][1] = "backward"
    /\ \E i, j \in 1..Len(heap[o].operands) :
         /\ ~heap[heap[o].operands[i]].requiresGrad
         /\ heap[heap[o].operands[j]].requiresGrad
         /\ heap[heap[o].operands[j]].hasGrad
         /\ heap[heap[o].operands[j]].grad > 0

\* The scenario's nodes, in creation order: w, x, b, w * x, w * x + b.
ScenarioBuilt ==
  /\ Len(heap) = 5
  /\ heap[1].value = 2 /\ heap[2].value = 3 /\ heap[3].value = 1

\* C8: y = w * x + b with w = 2, x = 3, b = 1 has forward value 7, and one
\* backward pass from y seeded with 1 leaves gradient 3 at w, 2 at x, 1 at b.
C8_LinearScenario ==
  ScenarioBuilt =>
    /\ heap[5].value = 7
    /\ bw.passes = <<[out |-> 5, seed |-> 1]>>
         => heap[1].grad = 3 /\ heap[2].grad = 2 /\ heap[3].grad = 1

\* The scenario was built and the backward pass from y seeded with 1 has run.
C8_Witness ==
  /\ ScenarioBuilt
  /\ bw.passes = <<[out |-> 5, seed |-> 1]>>
  /\ \E k \in Events(4) : bw.log[k][1] = "backward"

\* The sequential function run on the same inputs: the graph as the calling
\* goroutine left it before the loop, rebuilt call by call, then the loop of
\* ScaledDotProductAttention over the same qs.
Sequential ==
  LET R == Replay(SubSeq(hist.seq, 1, AttLeaves + 4))
  IN ScaledDotProductAttention(R.g, R.heap, att.qs)

\* The node of the sequential run S that stands for node n of the concurrent
\* run: itself for the inputs, keys, values and divTerm, and for the k-th
\* operator of the goroutine of query i the k-th operator of pass i.
Twin(S, n) ==
  IF n <= divTerm THEN n
  ELSE LET ik == CHOOSE ik \in Procs \X (1..OpsPerQuery) : att.local[ik[1]][ik[2]] = n
       IN S.local[ik[1]][ik[2]]

\* The nodes in the descendants list of node n of graph G with heap H.
DescendantNodes(G, H, n) ==
  {NodeAt(G, d).node : d \in Range(NodeAt(G, Id(H, n)).descendants)}

\* C11: once wg.Wait has returned, whatever the interleaving of the
\* goroutines, the graph is the graph of the sequential function up to the
\* ids of the per-query operators: the same operators over the same operands,
\* every node at the same depth with the same descendants, the same counters,
\* and context[i] and probs[i] those of query i.
C11_ConcurrentLikeSequential ==
  att.phase = "returned" =>
    LET S == Sequential
    IN /\ Len(heap) = Len(S.heap)
       /\ Len(g.nodes) = Len(S.g.nodes)
       /\ g.maxId = S.g.maxId
       /\ g.maxDepth = S.g.maxDepth
       /\ {Twin(S, n) : n \in 1..Len(heap)} = 1..Len(S.heap)
       /\ \A n \in 1..Len(heap) :
            LET t == Twin(S, n)
            IN /\ heap[n].kind = S.heap[t].kind
               /\ heap[n].function = S.heap[t].function
               /\ heap[n].value = S.heap[t].value
               /\ heap[n].requiresGrad = S.heap[t].requiresGrad
               /\ [i \in 1..Len(heap[n].operands) |-> Twin(S, heap[n].operands[i])]
                    = S.heap[t].operands
               /\ InRange(g, Id(heap, n))
               /\ NodeAt(g, Id(heap, n)).node = n
               /\ NodeAt(g, Id(heap, n)).depth = NodeAt(S.g, Id(S.heap, t)).depth
               /\ {Twin(S, m) : m \in DescendantNodes(g, heap, n)}
                    = DescendantNodes(S.g, S.heap, t)
               /\ n <= divTerm => Id(heap, n) = Id(S.heap, t)
       /\ \A p \in Procs :
            /\ Twin(S, att.context[p]) = S.context[p]
            /\ att.probs[p] = S.probs[p]
            /\ att.qs[p] \in Closure(heap, att.context[p])

\* The attention has returned after its goroutines, given different queries,
\* took turns: each registered an operator between two of the other's.
C11_Witness ==
  /\ att.phase = "returned"
  /\ att.qs[1] # att.qs[2]
  /\ Id(heap, att.local[2][1]) < Id(heap, att.local[1][4])
  /\ Id(heap, att.local[1][1]) < Id(heap, att.local[2][4])
  /\ Id(heap, att.local[1][2]) # Id(Sequential.heap, Sequential.local[1][2])

\* The sum of F over the indices the set K holds.
RECURSIVE SumOver(_, _)
SumOver(K, F) ==
  IF K = {} THEN 0
  ELSE LET k == CHOOSE x \in K : TRUE IN F[k] + SumOver(K \ {k}, F)

\* The seeds a client pushed into node n before the run of BackwardAll.
SeedSum(n) ==
  SumOver({k \in 1..Len(bw.passes) : bw.passes[k].out = n},
          [k \in 1..Len(bw.passes) |-> bw.passes[k].seed])

\* What the consumers of node n send it: for every registered operator that
\* has a gradient, and every place n takes in its operand list, the kernel's
\* partial gradient for that place.
Contributions(n) ==
  LET places == {oi \in Registered \X (1..MaxOperands) :
                   /\ heap[oi[1]].hasGrad
                   /\ oi[2] <= Len(heap[oi[1]].operands)
                   /\ heap[oi[1]].operands[oi[2]] = n}
  IN SumOver(places,
             [oi \in places |-> partial(heap, heap[oi[1]].function, heap[oi[1]].operands,
                                         oi[2], heap[oi[1]].grad)])

BackwardAllRan == \E k \in 1..Len(bw.passes) : bw.passes[k].out = 0

\* C12: after seeds on several nodes and one run of BackwardAll, the kernel
\* of every operator was invoked at most once (once exactly if the operator
\* has a gradient), no gradient was written to an operator after its kernel
\* was invoked, and every node that requires gradients holds its seeds plus
\* the contributions of all its consumers.
C12_OneBackwardPerOperator ==
  BackwardAllRan =>
    /\ \A o \in Registered :
         /\ Cardinality({k \in Events(o) : bw.log[k][1] = "backward"})
              = (IF heap[o].hasGrad THEN 1 ELSE 0)
         /\ \A k, j \in Events(o) :
              (bw.log[k][1] = "backward" /\ bw.log[j][1] = "write") => j < k
    /\ \A n \in Live :
         heap[n].grad = IF heap[n].requiresGrad THEN SeedSum(n) + Contributions(n) ELSE 0

\* Two outputs were seeded, one a transitive operand of the other, both
\* operators, and BackwardAll ran: the inner one got its seed and the outer
\* one's contribution before its kernel was invoked.
C12_Witness ==
  /\ BackwardAllRan
  /\ Len(bw.passes) = 3
  /\ bw.passes[1].out \in TransOperands(heap, bw.passes[2].out)
  /\ heap[bw.passes[1].out].kind = "Operator"
  /\ heap[bw.passes[1].out].grad > bw.passes[1].seed
  /\ \E k \in Events(bw.passes[1].out) : bw.log[k][1] = "backward"

\* The pairs (W, x) of an argument list of Affine after the first pair whose
\* x is not nil, by the place of W.
LaterPairs(xs) == {i \in 4..Len(xs) : i % 2 = 0 /\ i + 1 <= Len(xs) /\ xs[i + 1] # Nil}

\* The operators of function f created since the call of the nn function.
CreatedBy(f) ==
  {n \in (res.before + 1)..Len(heap) : heap[n].kind = "Operator" /\ heap[n].function = f}

\* C13: Affine panics (with the message on odd) exactly when the number of
\* arguments is even; for every odd number of arguments, a lone bias
\* included, whose first x is not nil it returns a node of value b + W1x1 +
\* the sum of Wi xi over the later pairs with x not nil, having created one
\* Mul and one Add for the first pair and for each such later pair.
C13_AffineOddArguments ==
  res.fn = "Affine" =>
    LET xs == res.args
    IN /\ res.panic = "odd" <=> Len(xs) % 2 = 0
       /\ (Len(xs) % 2 = 1 /\ (Len(xs) >= 3 => xs[3] # Nil)) =>
            /\ res.panic = "none"
            /\ heap[res.ret].value =
                 heap[xs[1]].value
                   + (IF Len(xs) >= 3 THEN heap[xs[2]].value * heap[xs[3]].value ELSE 0)
                   + SumOver(LaterPairs(xs),
                             [i \in LaterPairs(xs) |-> heap[xs[i]].value * heap[xs[i + 1]].value])
            /\ Cardinality(CreatedBy("Mul"))
                 = (IF Len(xs) >= 3 THEN 1 ELSE 0) + Cardinality(LaterPairs(xs))
            /\ Cardinality(CreatedBy("Add")) = Cardinality(CreatedBy("Mul"))
            /\ Len(heap) = res.before + 2 * Cardinality(CreatedBy("Mul"))

\* No constructor and no Reset is inside its critical section.
Quiescent == \A p \in Procs : pc[p] # "cs"

\* C14: in every quiescent state of a graph that holds a node, maxId is the
\* id of the last inserted node, that is len(nodes) - 1.
C14_MaxIdIsLastId ==
  (Quiescent /\ Len(g.nodes) > 0) =>
    /\ g.maxId = Id(heap, g.nodes[Len(g.nodes)].node)
    /\ g.maxId = Len(g.nodes) - 1

\* The largest depth a record of the arena holds, 0 for an empty arena.
DeepestRecord ==
  CHOOSE d \in {0} \cup {g.nodes[i].depth : i \in 1..Len(g.nodes)} :
    \A i \in 1..Len(g.nodes) : g.nodes[i].depth <= d

\* How often node n occurs in bucket d (zero-based) of groupNodesByDepth.
Occurrences(n, d) ==
  Cardinality({k \in 1..Len(groupNodesByDepth(g)[d + 1]) : groupNodesByDepth(g)[d + 1][k] = n})

\* C15: whatever constructor calls and Resets led to the state, maxDepth is
\* the largest depth of a record (0 for an empty arena), so every record's
\* depth is an index of the maxDepth+1 buckets of groupNodesByDepth, and the
\* grouping is a partition: every node of the arena occurs once, in the
\* bucket of its depth, and nowhere else.
C15_MaxDepthAndPartition ==
  /\ g.maxDepth = DeepestRecord
  /\ \A i \in 1..Len(g.nodes) : g.nodes[i].depth \in 0..g.maxDepth
  /\ Len(groupNodesByDepth(g)) = g.maxDepth + 1
  /\ \A i \in 1..Len(g.nodes) : \A d \in 0..g.maxDepth :
       Occurrences(g.nodes[i].node, d) = (IF d = g.nodes[i].depth THEN 1 ELSE 0)
  /\ \A d \in 0..g.maxDepth : \A k \in 1..Len(groupNodesByDepth(g)[d + 1]) :
       groupNodesByDepth(g)[d + 1][k] \in Live

\* A graph that held a node was reset and an operator was built again: the
\* new arena has two levels, one of them with two nodes.
C15_Witness ==
  /\ hist.resets >= 1
  /\ Held \ Live # {}
  /\ g.maxDepth >= 1
  /\ \E d \in 0..g.maxDepth : Len(groupNodesByDepth(g)[d + 1]) >= 2
  /\ Quiescent

\* C16: the descendants list of every record holds no id twice and holds
\* exactly the ids of the node's reflexive-transitive operand closure: the
\* node's own id alone for a variable or wrapper, and for an operator the
\* union of its operands' lists and then its own id.
C16_DescendantsAreClosure ==
  \A i \in 1..Len(g.nodes) :
    LET n == g.nodes[i].node
        ds == g.nodes[i].descendants
    IN /\ \A j, k \in 1..Len(ds) : j # k => ds[j] # ds[k]
       /\ Range(ds) = {Id(heap, m) : m \in Closure(heap, n)}
       /\ heap[n].kind # "Operator" => ds = <<Id(heap, n)>>
       /\ heap[n].kind = "Operator" =>
            /\ ds[Len(ds)] = Id(heap, n)
            /\ Range(ds) = {Id(heap, n)} \cup
                 UNION {Range(NodeAt(g, Id(heap, heap[n].operands[j])).descendants) :
                          j \in 1..Len(heap[n].operands)}

\* An operator that got one node twice as operand is registered, and so is
\* an operator that reaches a node through both of its operands.
C16_Witness ==
  /\ \E o \in Registered :
       Len(heap[o].operands) = 2 /\ heap[o].operands[1] = heap[o].operands[2]
  /\ \E o \in Registered :
       /\ Len(heap[o].operands) = 2
       /\ heap[o].operands[1] # heap[o].operands[2]
       /\ Closure(heap, heap[o].operands[1]) \cap Closure(heap, heap[o].operands[2]) # {}
  /\ Quiescent

\* The ids in the descendants lists of the records the operands ns address.
OperandsDescendants(ns) ==
  UNION {Range(NodeAt(g, Id(heap, ns[j])).descendants) : j \in 1..Len(ns)}

\* C17: a step that is not the critical section of Reset never lowers the
\* depth of a record nor removes one; the critical section of a constructor
\* that returns keeps the node and the descendants list of every existing
\* record and every existing node object, appends one record of depth 0, and
\* changes depths and maxDepth only in NewOperator, which raises by exactly 1
\* the depth of exactly the records whose id is in the union of its operands'
\* descendants lists.
C17_ConstructorFrame ==
  [][/\ (\A p \in Procs : ~(pc[p] = "cs" /\ pc'[p] # "cs" /\ call[p].op = "Reset")) =>
          /\ Len(g'.nodes) >= Len(g.nodes)
          /\ \A i \in 1..Len(g.nodes) : g'.nodes[i].depth >= g.nodes[i].depth
     /\ \A p \in Procs :
          (pc[p] = "cs" /\ pc'[p] = "unlock" /\ call[p].op # "Reset") =>
            LET raised == IF call[p].op = "NewOperator"
                          THEN OperandsDescendants(call[p].operands) ELSE {}
            IN /\ Len(g'.nodes) = Len(g.nodes) + 1
               /\ g'.nodes[Len(g'.nodes)].depth = 0
               /\ \A i \in 1..Len(g.nodes) :
                    /\ g'.nodes[i].node = g.nodes[i].node
                    /\ g'.nodes[i].descendants = g.nodes[i].descendants
                    /\ g'.nodes[i].depth =
                         g.nodes[i].depth + (IF (i - 1) \in raised THEN 1 ELSE 0)
               /\ \A n \in 1..Len(heap) : heap'[n] = heap[n]
               /\ call[p].op # "NewOperator" => g'.maxDepth = g.maxDepth]_vars

\* A NewOperator whose two operands share a descendant has just left its
\* critical section, in an arena that holds a record of depth 1 or more which
\* is not among the new operator's descendants.
C17_Witness ==
  \E p \in Procs :
    /\ pc[p] = "unlock"
    /\ call[p].op = "NewOperator"
    /\ Len(call[p].operands) = 2
    /\ Len(g.nodes) >= 2
    /\ \E i \in 1..(Len(g.nodes) - 1) :
         /\ g.nodes[i].depth >= 1
         /\ (i - 1) \notin Range(g.nodes[Len(g.nodes)].descendants)
    /\ Len(g.nodes[Len(g.nodes)].descendants) = 2

\* C18: the requiresGrad flag of every operator ever created is the OR of its
\* operands' flags (false without operands), which is to say that some leaf of
\* its operand closure requires gradients; and no step, a backward pass
\* included, changes the flag or the operands of an existing node.
C18_RequiresGradIsOr ==
  /\ [](\A o \in Held :
          heap[o].kind = "Operator" =>
            /\ heap[o].requiresGrad
                 <=> \E i \in 1..Len(heap[o].operands) : heap[heap[o].operands[i]].requiresGrad
            /\ heap[o].requiresGrad
                 <=> \E m \in Closure(heap, o) :
                       heap[m].kind # "Operator" /\ heap[m].requiresGrad)
  /\ [][\A n \in 1..Len(heap) :
          /\ heap'[n].requiresGrad = heap[n].requiresGrad
          /\ heap'[n].operands = heap[n].operands]_vars

\* An operator requires gradients only through an operand that is an operator
\* itself, over a leaf that does, and a backward pass has given it a gradient.
C18_Witness ==
  /\ bw.passes # <<>>
  /\ \E o \in Registered :
       /\ heap[o].requiresGrad
       /\ heap[o].hasGrad
       /\ \A i \in 1..Len(heap[o].operands) :
            heap[heap[o].operands[i]].kind = "Operator"

\* C19: the mutex is owned only by a goroutine between Lock and the deferred
\* Unlock; a goroutine that left its critical section, by return or by the
\* panic of NewOperator on an invalid operand, gives the mutex back; and
\* under fair scheduling every goroutine that waits for the mutex gets it.
C19_LockReleasedAndAcquired ==
  /\ [](\A p \in Procs : g.mu = p => pc[p] \in {"cs", "unlock", "panic"})
  /\ \A p \in Procs : (pc[p] \in {"unlock", "panic"}) ~> (pc[p] = "idle" /\ g.mu # p)
  /\ \A p \in Procs : (pc[p] = "lock") ~> (pc[p] = "cs" /\ g.mu = p)

\* A NewOperator panicked inside its critical section while another
\* goroutine waits for the mutex.
C19_Witness ==
  \E p, q \in Procs :
    /\ pc[p] = "panic"
    /\ g.mu = p
    /\ pc[q] = "lock"

\* C20: the critical section of a NewOperator that panics on an invalid
\* operand leaves the arena (every record's node, depth and descendants),
\* maxDepth and the id counter as they were, and so a constructor that
\* returns has appended a node whose id is its arena index.
C20_FailedCallLeavesGraph ==
  [][\A p \in Procs :
       /\ (pc[p] = "cs" /\ pc'[p] = "panic") =>
            /\ g'.nodes = g.nodes
            /\ g'.maxDepth = g.maxDepth
            /\ g'.maxId = g.maxId
       /\ (pc[p] = "cs" /\ pc'[p] = "unlock" /\ call[p].op # "Reset") =>
            Id(heap', g'.nodes[Len(g'.nodes)].node) = Len(g'.nodes) - 1]_vars

\* C21: in the critical section of a NewOperator that returns, the record
\* addressed by the id of every operand holds that operand, and the records
\* whose depth is raised hold direct or transitive operands of the new
\* operator; also for operands created before a Reset.
C21_OperandRecordHoldsOperand ==
  [][\A p \in Procs :
       (pc[p] = "cs" /\ pc'[p] = "unlock" /\ call[p].op = "NewOperator") =>
         /\ \A j \in 1..Len(call[p].operands) :
              NodeAt(g, Id(heap, call[p].operands[j])).node = call[p].operands[j]
         /\ \A i \in 1..Len(g.nodes) :
              g'.nodes[i].depth # g.nodes[i].depth =>
                g.nodes[i].node \in TransOperands(heap', g'.nodes[Len(g'.nodes)].node)]_vars

\* C22: a groupNodesByDepth that runs while other goroutines construct
\* operators never fails: the depth it reads for a record is an index of the
\* buckets it made from the maxDepth it read earlier, and every node it has
\* placed is in the bucket of the depth the record has.
C22_GroupingNeverFails ==
  /\ ~grp.panic
  /\ (grp.pc = "range" /\ grp.i < grp.len) => g.nodes[grp.i + 1].depth < Len(grp.out)
  /\ grp.pc = "done" =>
       \A i \in 1..grp.len : \A d \in 1..Len(grp.out) :
         g.nodes[i].node \in Range(grp.out[d]) => g.nodes[i].depth = d - 1

\* The parameters whose write or read failed.
Failing(outs) == {i \in 1..Len(outs) : outs[i].err}

\* C23: Serialize and Deserialize return a non-nil error when a parameter
\* fails and visit no parameter after the first that failed; when none fails
\* the error is nil and n is the sum of the byte counts of all parameters.
C23_SerializeReportsFailure ==
  res.fn \in {"Serialize", "Deserialize"} =>
    LET outs == res.args
    IN /\ Failing(outs) # {} =>
            /\ res.ret.err
            /\ \A i \in Failing(outs) : res.ret.visited <= i
       /\ Failing(outs) = {} =>
            /\ ~res.ret.err
            /\ res.ret.visited = Len(outs)
            /\ res.ret.n = SumOver(1..Len(outs), [i \in 1..Len(outs) |-> outs[i].cnt])

\* The sequences of ys one after the other.
RECURSIVE Flatten(_)
Flatten(ys) == IF ys = <<>> THEN <<>> ELSE Head(ys) \o Flatten(Tail(ys))

\* C24: for a vector of n >= 1 elements and 1 <= chunks <= n, SplitVec
\* returns chunks nodes whose concatenation is the vector: the indices read
\* are 0, 1, .., n-1, each once and in this order, and none is n or more.
C24_SplitVecCoversVector ==
  (res.fn = "SplitVec" /\ res.args[2] <= res.args[1]) =>
    /\ Len(res.ret) = res.args[2]
    /\ Flatten(res.ret) = [k \in 1..res.args[1] |-> k - 1]

====
